---- MODULE Spec2Model ----
(***************************************************************************)
(* A model of the GCT website's client-side components (scripts/app.js     *)
(* and the scroll-reveal script): page loader, scroll reveals, counters    *)
(* and the DOM-ready initialisation of the page.                           *)
(*                                                                         *)
(* Timers are modelled with their nominal delays: a setTimeout callback    *)
(* runs when the clock reaches its due time, and the clock does not pass   *)
(* a due timer.  Times are milliseconds.                                   *)
(***************************************************************************)
EXTENDS Integers, Sequences, FiniteSets, TLC

\* ------------------------------------------------------------------------
\* Program constants
\* ------------------------------------------------------------------------
LoadHideDelay == 500        \* setTimeout(() => this.hide(), 500)
CeilingDelay == 3000        \* fallback setTimeout(..., 3000)
RemoveDelay == 500          \* setTimeout(() => this.loader.remove(), 500)
DefaultDuration == 2000     \* options.duration || 2000
CarouselInterval == 5000    \* setInterval(..., 5000)
DefaultSpeedTenths == 5     \* layer.dataset.speed || 0.5, in tenths

\* ------------------------------------------------------------------------
\* Bounds of the model
\* ------------------------------------------------------------------------
MaxTime == 4500             \* the loader's clock stops here
MaxCtorTime == 500          \* latest time at which a PageLoader is constructed
NumEls == 2                 \* elements that may carry [data-reveal]
NumTextEls == 1             \* .text-reveal elements
MaxBatch == 2               \* entries in one callback of a counter's observer
MaxRevealBatch == 2         \* entries in one callback of the reveal observer
MaxCounters == 2            \* [data-counter] elements on the page
MaxLayers == 1              \* .parallax-layer elements on the page
MaxTarget == 1000           \* largest data-target of a counter
MaxStartFrame == 40         \* latest frame time at which a counter is triggered
MaxFrameTime == 2600         \* the frame clock stops here
NumFaq == 3                 \* .faq-item elements of the accordion
MaxSlides == 4              \* .testimonial-slide elements in the track
MaxCarTime == 25000         \* the carousel's clock stops here
NumFields == 2              \* fields of the form

None == 0 - 1                  \* "has not happened" for recorded times
NaN == 0 - 2                   \* the number value NaN

Min(a, b) == IF a <= b THEN a ELSE b
Abs(a) == IF a < 0 THEN -a ELSE a

RECURSIVE GCD(_, _)
GCD(a, b) == IF b = 0 THEN a ELSE GCD(b, a % b)

\* The clock advances in steps of half the shortest delay, and stops at
\* every due timer in between.
Granularity == LoadHideDelay \div 2

\* Frame timestamps and performance.now() are taken on a grid of a
\* hundredth of the default duration.
FrameGrain == DefaultDuration \div 100
FrameDeltas == {FrameGrain, 25 * FrameGrain}
CoarseFrameDeltas == {25 * FrameGrain}
\* performance.now() in a callback is at or after the timestamp of the
\* frame that is current, by less than three grains.
PerfLags == {0, FrameGrain, 2 * FrameGrain}

RevealEls == 1 .. NumEls
TextEls == 1 .. NumTextEls
\* data-target: absent (<<>>) or a number as parseInt reads it
TargetAttrs == {<<>>, <<7>>, <<MaxTarget>>, <<-3>>}
DurationOpts == {0, DefaultDuration \div 2}   \* options.duration: absent (0) or 1000
Suffixes == {"", "+"}

VARIABLES
    \* ---- document and platform
    readyState,        \* document.readyState: "loading" | "interactive" | "complete"
    dclFired,          \* DOMContentLoaded has been dispatched
    hasIO,             \* 'IntersectionObserver' in window
    reducedMotion,     \* matchMedia('(prefers-reduced-motion: reduce)').matches
    \* ---- PageLoader
    now,               \* the clock of setTimeout, in ms
    loaderPresent,     \* document.querySelector('.page-loader') finds an element
    ldConstructed,     \* new PageLoader() has run
    ldLoadListener,    \* window 'load' listener registered by init()
    timers,            \* pending setTimeout callbacks: [id, due, kind]
    nextTimerId,       \* ids are handed out in creation order
    ldHidden,          \* loader.classList.contains('hidden')
    ldAttached,        \* the loader element is in the document
    ldHideCalls,       \* number of executions of hide()
    ldCompleteAtCtor,  \* document.readyState === 'complete' seen by init()
    ldCtorAt,          \* time of construction
    ldLoadAt,          \* time at which the load listener ran
    ldHideAt,          \* time at which 'hidden' was first added
    ldRemoveAt,        \* time at which the element was detached
    \* ---- ScrollReveals
    domEls,            \* [data-reveal] elements in the markup
    srConstructed,     \* the ScrollReveals constructor has been called
    srThrew,           \* ... and threw
    srObserver,        \* this.observer is not null
    srElements,        \* this.elements
    revealed,          \* elements whose classList holds 'revealed'
    observed,          \* targets the observer tracks
    passed,            \* elements that were passed to observe()
    srEvent,           \* the last ScrollReveals operation: [op, el, hits]
    \* ---- TextReveal
    textEls,           \* .text-reveal elements in the markup
    textRevealed,      \* ... whose classList holds 'revealed'
    textWrapped,       \* ... whose content was wrapped in a span
    \* ---- CounterAnimation (the instance of the first [data-counter])
    numCounters,       \* [data-counter] elements in the markup
    cTargetAttr,       \* element.dataset.target
    cDurationOpt,      \* options.duration (0: not given)
    cSuffix,           \* element.dataset.suffix
    cConstructed,      \* the constructor completed
    cTarget,           \* this.target
    cDuration,         \* this.duration
    cStarted,          \* this.started
    cObserved,         \* the counter's observer tracks the element
    cAnimateCalls,     \* number of executions of animate()
    cStartTime,        \* startTime of animate()
    cRafPending,       \* update callbacks requested and not yet run
    cText,             \* element.textContent
    cShown,            \* the number last written by update()
    cShownValid,       \* update() has run
    cLastHits,         \* intersecting entries in the last observer callback
    \* ---- frames, scroll progress, parallax
    frameTime,         \* timestamp of the current animation frame
    spCreated,         \* the scroll progress bar exists
    pxLayers,          \* number of .parallax-layer elements
    pxListening,       \* the parallax scroll listener is registered
    pxTicking,         \* this.ticking
    pxPending,         \* parallax frame callbacks requested and not yet run
    pxSpeedAttr,       \* per layer: dataset.speed in tenths (<<>>: not given)
    pxOffset,          \* per layer: the vertical offset, tenths of a pixel
    pxUpdated,         \* updateLayers() has run
    scrollY,           \* window.scrollY
    scrollHeight,      \* document.documentElement.scrollHeight
    innerHeight,       \* window.innerHeight
    spWidth,           \* the bar's width in percent, a fraction <<num, den>>
    \* ---- the two scripts
    appScript,         \* app.js: "absent" | "pending" | "listening" | "ran" | "threw"
    appInited,         \* what the ready callback of app.js initialised
    appThrew,          \* the ready callback threw
    footerRan,         \* the footer's ready callback ran
    ftPlaceholder,     \* the markup has #footer-placeholder
    ftMain,            \* the markup has .main-content
    ftFooters,         \* footers inserted into the document
    ftAt,              \* "none" | "placeholder" | "main": where the footer went
    fxScript,          \* reveal script: "absent" | "pending" | "listening" | "missed" | "ran"
    fxInited,          \* what its DOMContentLoaded handler constructed
    \* ---- FAQ accordion
    faqItems,          \* the .faq-item elements of the markup
    faqQuestions,      \* the items that contain a .faq-question
    faqOpen,           \* the items carrying the class "open"
    faqListening,      \* the items whose question has the click listener
    faqLast,           \* the item whose question was clicked last (0: none)
    faqPrevOpen,       \* the open items just before that click
    \* ---- testimonial carousel
    carTrack,          \* #testimonialTrack exists
    carDotsBox,        \* #testimonialDots exists
    carSlides,         \* number of .testimonial-slide elements in the track
    carInited,         \* initTestimonialCarousel() got past its guard
    carCurrent,        \* currentSlide
    carTransform,      \* track.style.transform ("": never set)
    carDots,           \* per indicator: it carries the class "active"
    carNow,            \* the carousel's clock, ms
    carDue,            \* when the interval fires next (None: no interval)
    carInitAt,         \* when the interval was set
    carLastEvent,      \* "none" | "click" | "tick": what ran last
    carFrom,           \* the index chosen by the last click (0 before any)
    carTicksSince,     \* interval ticks since that click
    carLastClickAt,    \* when the last click happened (None: never)
    \* ---- a form
    fmValidate,        \* the form carries data-validate
    fmRequired,        \* its fields that carry the attribute required
    fmDefault,         \* per field: the default value of the markup
    fmHasSuccess,      \* the form contains a .form-success element
    fmListening,       \* the submit listener is registered
    fmValue,           \* per field: input.value
    fmError,           \* the fields carrying the class "error"
    fmSuccessShown,    \* successMsg.style.display is "block"
    fmNavigated,       \* a submit took the browser's default action
    fmLastEvent        \* "none" | "edit" | "submit": what happened last

envVars == <<readyState, dclFired, hasIO, reducedMotion>>
loaderVars == <<now, loaderPresent, ldConstructed, ldLoadListener, timers,
                nextTimerId, ldHidden, ldAttached, ldHideCalls,
                ldCompleteAtCtor, ldCtorAt, ldLoadAt, ldHideAt, ldRemoveAt>>
revealVars == <<domEls, srConstructed, srThrew, srObserver, srElements,
                revealed, observed, passed, srEvent>>
textVars == <<textEls, textRevealed, textWrapped>>
counterVars == <<numCounters, cTargetAttr, cDurationOpt, cSuffix, cConstructed,
                 cTarget, cDuration, cStarted, cObserved, cAnimateCalls,
                 cStartTime, cRafPending, cText, cShown, cShownValid,
                 cLastHits>>
frameVars == <<frameTime>>
parallaxVars == <<spCreated, pxLayers, pxListening, pxTicking, pxPending,
                  pxSpeedAttr, pxOffset, pxUpdated,
                  scrollY, scrollHeight, innerHeight, spWidth>>
footerVars == <<ftPlaceholder, ftMain, ftFooters, ftAt>>
appVars == <<appScript, appInited, appThrew, footerRan, footerVars>>
fxVars == <<fxScript, fxInited>>
faqVars == <<faqItems, faqQuestions, faqOpen, faqListening, faqLast, faqPrevOpen>>
carouselVars == <<carTrack, carDotsBox, carSlides, carInited, carCurrent,
                  carTransform, carDots, carNow, carDue, carInitAt,
                  carLastEvent, carFrom, carTicksSince, carLastClickAt>>
formVars == <<fmValidate, fmRequired, fmDefault, fmHasSuccess, fmListening,
              fmValue, fmError, fmSuccessShown, fmNavigated, fmLastEvent>>
uiVars == <<faqVars, carouselVars, formVars>>
vars == <<envVars, loaderVars, revealVars, textVars, counterVars, frameVars,
          parallaxVars, appVars, fxVars, uiVars>>

\* ------------------------------------------------------------------------
\* PageLoader (scripts/app.js 18-55)
\* ------------------------------------------------------------------------
Timer(id, due, kind) == [id |-> id, due |-> due, kind |-> kind]

\* A hide() that forgets the removal timer.
HideEffect_NoRemove(ts, id) ==
    /\ ldHidden' = TRUE
    /\ ldHideCalls' = ldHideCalls + 1
    /\ ldHideAt' = IF ldHidden THEN ldHideAt ELSE now
    /\ timers' = ts
    /\ nextTimerId' = id

\* hide(): add the class, schedule the removal.  ts is the timer set the
\* caller leaves behind, id the next free timer id.
HideEffect(ts, id) ==
    /\ ldHidden' = TRUE
    /\ ldHideCalls' = ldHideCalls + 1
    /\ ldHideAt' = IF ldHidden THEN ldHideAt ELSE now
    /\ timers' = ts \cup {Timer(id, now + RemoveDelay, "remove")}
    /\ nextTimerId' = id + 1

\* An init() without the ceiling timer.
LoaderInit_NoCeiling ==
    IF readyState = "complete"
    THEN /\ ldCompleteAtCtor' = TRUE
         /\ HideEffect(timers, nextTimerId)
         /\ UNCHANGED ldLoadListener
    ELSE /\ ldCompleteAtCtor' = FALSE
         /\ ldLoadListener' = TRUE
         /\ UNCHANGED <<timers, nextTimerId, ldHidden, ldHideCalls, ldHideAt>>

\* init(): hide at once when the document is complete, otherwise register
\* the load listener and the ceiling timer.
LoaderInit ==
    IF readyState = "complete"
    THEN /\ ldCompleteAtCtor' = TRUE
         /\ HideEffect(timers, nextTimerId)
         /\ UNCHANGED ldLoadListener
    ELSE /\ ldCompleteAtCtor' = FALSE
         /\ ldLoadListener' = TRUE
         /\ timers' = timers \cup {Timer(nextTimerId, now + CeilingDelay, "ceiling")}
         /\ nextTimerId' = nextTimerId + 1
         /\ UNCHANGED <<ldHidden, ldHideCalls, ldHideAt>>

\* constructor: look the element up, init() only when it exists.
PageLoaderCtor ==
    /\ ldConstructed' = TRUE
    /\ ldCtorAt' = now
    /\ IF loaderPresent
       THEN LoaderInit
       ELSE UNCHANGED <<ldCompleteAtCtor, ldLoadListener, timers, nextTimerId,
                        ldHidden, ldHideCalls, ldHideAt>>
    /\ UNCHANGED <<now, loaderPresent, ldAttached, ldLoadAt, ldRemoveAt>>

\* The window 'load' listener of init(): setTimeout(() => this.hide(), 500).
LoadListener ==
    IF ldLoadListener
    THEN /\ timers' = timers \cup {Timer(nextTimerId, now + LoadHideDelay, "afterLoad")}
         /\ nextTimerId' = nextTimerId + 1
         /\ ldLoadAt' = now
         /\ UNCHANGED <<now, loaderPresent, ldConstructed, ldLoadListener, ldHidden,
                        ldAttached, ldHideCalls, ldCompleteAtCtor, ldCtorAt,
                        ldHideAt, ldRemoveAt>>
    ELSE UNCHANGED loaderVars

\* The timer that runs next: the earliest due, the oldest among equals.
DueTimers == {t \in timers : t.due <= now}
NextDue == CHOOSE t \in DueTimers : \A u \in DueTimers : t.id <= u.id

\* setTimeout(() => this.hide(), 500) of the load listener fires.
FireAfterLoad ==
    /\ DueTimers # {}
    /\ NextDue.kind = "afterLoad"
    /\ HideEffect(timers \ {NextDue}, nextTimerId)
    /\ UNCHANGED <<now, loaderPresent, ldConstructed, ldLoadListener, ldAttached,
                   ldCompleteAtCtor, ldCtorAt, ldLoadAt, ldRemoveAt>>
    /\ UNCHANGED <<envVars, revealVars, textVars, counterVars, frameVars, parallaxVars, appVars, fxVars, uiVars>>

\* The ceiling timer fires: hide() unless the class is already there.
FireCeiling ==
    /\ DueTimers # {}
    /\ NextDue.kind = "ceiling"
    /\ IF ~ldHidden
       THEN HideEffect(timers \ {NextDue}, nextTimerId)
       ELSE /\ timers' = timers \ {NextDue}
            /\ UNCHANGED <<nextTimerId, ldHidden, ldHideCalls, ldHideAt>>
    /\ UNCHANGED <<now, loaderPresent, ldConstructed, ldLoadListener, ldAttached,
                   ldCompleteAtCtor, ldCtorAt, ldLoadAt, ldRemoveAt>>
    /\ UNCHANGED <<envVars, revealVars, textVars, counterVars, frameVars, parallaxVars, appVars, fxVars, uiVars>>

\* The removal timer of hide() fires: this.loader.remove().
FireRemove ==
    /\ DueTimers # {}
    /\ NextDue.kind = "remove"
    /\ timers' = timers \ {NextDue}
    /\ ldAttached' = FALSE
    /\ ldRemoveAt' = IF ldAttached THEN now ELSE ldRemoveAt
    /\ UNCHANGED <<now, loaderPresent, ldConstructed, ldLoadListener, nextTimerId,
                   ldHidden, ldHideCalls, ldCompleteAtCtor, ldCtorAt, ldLoadAt,
                   ldHideAt>>
    /\ UNCHANGED <<envVars, revealVars, textVars, counterVars, frameVars, parallaxVars, appVars, fxVars, uiVars>>

\* Time passes, up to the next due timer.
Advance ==
    /\ DueTimers = {}
    /\ now < MaxTime
    /\ now' = LET step == Min(now + Granularity, MaxTime)
                  dues == {t.due : t \in timers}
              IN  IF \E d \in dues : d < step
                  THEN CHOOSE d \in dues : \A e \in dues : d <= e
                  ELSE step
    /\ UNCHANGED <<loaderPresent, ldConstructed, ldLoadListener, timers,
                   nextTimerId, ldHidden, ldAttached, ldHideCalls,
                   ldCompleteAtCtor, ldCtorAt, ldLoadAt, ldHideAt, ldRemoveAt>>
    /\ UNCHANGED <<envVars, revealVars, textVars, counterVars, frameVars, parallaxVars, appVars, fxVars, uiVars>>

\* new PageLoader() by a caller of the exported class.
NewPageLoader ==
    /\ ~ldConstructed
    /\ now <= MaxCtorTime
    /\ PageLoaderCtor
    /\ UNCHANGED <<envVars, revealVars, textVars, counterVars, frameVars, parallaxVars, appVars, fxVars, uiVars>>

\* ------------------------------------------------------------------------
\* ScrollReveals (reveal script 6-66)
\* ------------------------------------------------------------------------
SrEvent(op, el, hits) == [op |-> op, el |-> el, hits |-> hits]
Entry(target, isIntersecting) == [target |-> target, isIntersecting |-> isIntersecting]

\* the targets of the entries with isIntersecting
IntersectingTargets(batch) ==
    {batch[i].target : i \in {j \in DOMAIN batch : batch[j].isIntersecting}}

\* An observer callback that reveals and keeps observing.
SrEntry_KeepObserving(st, entry) ==
    IF entry.isIntersecting
    THEN [revealed |-> st.revealed \cup {entry.target}, observed |-> st.observed]
    ELSE st

\* The observer callback for one entry: reveal the target and stop
\* observing it when it intersects.
SrEntry(st, entry) ==
    IF entry.isIntersecting
    THEN [revealed |-> st.revealed \cup {entry.target},
          observed |-> st.observed \ {entry.target}]
    ELSE st

\* An init() that never takes the fallback.
SrInitEffect_NoFallback ==
    /\ srThrew' = ~hasIO
    /\ srObserver' = hasIO
    /\ observed' = IF hasIO THEN observed \cup domEls ELSE observed
    /\ UNCHANGED revealed

RECURSIVE SrForEach(_, _)
\* entries.forEach(...) of the reveal observer's callback
SrForEach(st, entries) ==
    IF entries = <<>> THEN st
    ELSE SrForEach(SrEntry(st, Head(entries)), Tail(entries))

\* init(): with the capability create the observer and observe every
\* element, without it revealAll().
SrInitEffect ==
    IF hasIO
    THEN /\ srObserver' = TRUE
         /\ observed' = observed \cup domEls
         /\ UNCHANGED <<revealed, srThrew>>
    ELSE /\ revealed' = revealed \cup domEls
         /\ UNCHANGED <<srObserver, observed, srThrew>>

\* constructor: this.elements = querySelectorAll('[data-reveal]'),
\* this.observer = null, init().
ScrollRevealsCtor ==
    /\ srConstructed' = TRUE
    /\ srElements' = domEls
    /\ SrInitEffect
    /\ srEvent' = SrEvent("ctor", 0, {})
    /\ UNCHANGED <<domEls, passed>>

\* observe(element): if (this.observer) this.observer.observe(element)
SrObserveEffect(el) ==
    /\ observed' = IF srObserver THEN observed \cup {el} ELSE observed
    /\ UNCHANGED revealed

\* A caller passes an element to observe().
SrObserve(el) ==
    /\ srConstructed /\ ~srThrew
    /\ SrObserveEffect(el)
    /\ passed' = passed \cup {el}
    /\ srEvent' = SrEvent("observe", el, {})
    /\ UNCHANGED <<domEls, srConstructed, srThrew, srObserver, srElements>>
    /\ UNCHANGED <<envVars, loaderVars, textVars, counterVars, frameVars,
                   parallaxVars, appVars, fxVars, uiVars>>

\* The batches an observer can deliver: entries for targets it tracks.
Batches(targets) ==
    UNION {[1 .. n -> {Entry(t, b) : t \in targets, b \in BOOLEAN}] : n \in 1 .. MaxRevealBatch}

\* The observer of createObserver() delivers a batch of entries.
SrIntersection(batch) ==
    /\ srObserver
    /\ LET st == SrForEach([revealed |-> revealed, observed |-> observed], batch)
       IN  /\ revealed' = st.revealed
           /\ observed' = st.observed
    /\ srEvent' = SrEvent("intersect", 0, IntersectingTargets(batch))
    /\ UNCHANGED <<domEls, srConstructed, srThrew, srObserver, srElements, passed>>
    /\ UNCHANGED <<envVars, loaderVars, textVars, counterVars, frameVars,
                   parallaxVars, appVars, fxVars, uiVars>>

\* new ScrollReveals() by a caller of the exported class.
NewScrollReveals ==
    /\ ~srConstructed
    /\ ScrollRevealsCtor
    /\ UNCHANGED <<envVars, loaderVars, textVars, counterVars, frameVars,
                   parallaxVars, appVars, fxVars, uiVars>>

\* ------------------------------------------------------------------------
\* TextReveal (reveal script 71-83)
\* ------------------------------------------------------------------------
\* constructor: wrap the text of every matched element in a span.
TextRevealCtor ==
    /\ textWrapped' = textEls
    /\ UNCHANGED <<textEls, textRevealed>>

\* ------------------------------------------------------------------------
\* CounterAnimation (scripts/app.js 60-114)
\* ------------------------------------------------------------------------
\* parseInt(element.dataset.target) || 0
ParseTarget(attr) == IF attr = <<>> THEN 0 ELSE attr[1]

\* options.duration || 2000
DurationOf(opt) == IF opt # 0 THEN opt ELSE DefaultDuration

DigitChars == <<"0", "1", "2", "3", "4", "5", "6", "7", "8", "9">>

RECURSIVE NatString(_)
NatString(n) ==
    IF n < 10 THEN DigitChars[n + 1]
    ELSE NatString(n \div 10) \o DigitChars[(n % 10) + 1]

ThreeDigits(n) ==
    DigitChars[(n \div 100) + 1] \o DigitChars[((n \div 10) % 10) + 1]
        \o DigitChars[(n % 10) + 1]

RECURSIVE Grouped(_)
Grouped(n) ==
    IF n < 1000 THEN NatString(n)
    ELSE Grouped(n \div 1000) \o "," \o ThreeDigits(n % 1000)

\* Number.prototype.toLocaleString() of an integer, in a locale that groups
\* by thousands with commas
ToLocaleString(n) == IF n < 0 THEN "-" \o Grouped(-n) ELSE Grouped(n)

\* An easing that counts the remaining part: end * (1 - progress)^3.
EasedValue_Remaining(end, elapsed, duration) ==
    LET e == Min(elapsed, duration)
        g == GCD(duration, Abs(e))
        d == duration \div g
        r == (duration - e) \div g
    IN  (end * (r * r * r)) \div (d * d * d)

\* Math.floor(0 + (end - 0) * (1 - Math.pow(1 - progress, 3))) with
\* progress = Math.min(elapsed / duration, 1), in exact arithmetic: with
\* r / d = 1 - progress in lowest terms, floor(end * (d^3 - r^3) / d^3).
EasedValue(end, elapsed, duration) ==
    LET e == Min(elapsed, duration)
        g == GCD(duration, Abs(e))
        d == duration \div g
        r == (duration - e) \div g
    IN  (end * (d * d * d - r * r * r)) \div (d * d * d)

\* A callback without the started guard.
CounterEntry_NoGuard(st, entry) ==
    IF entry.isIntersecting
    THEN [started |-> TRUE, calls |-> st.calls + 1, pending |-> st.pending + 1,
          observed |-> FALSE, startTime |-> st.perfNow, perfNow |-> st.perfNow]
    ELSE st

\* The observer callback for one entry: on the first intersecting entry set
\* started, animate() (which records performance.now() and requests the
\* first frame) and unobserve.
CounterEntry(st, entry) ==
    IF entry.isIntersecting /\ ~st.started
    THEN [started |-> TRUE, calls |-> st.calls + 1, pending |-> st.pending + 1,
          observed |-> FALSE, startTime |-> st.perfNow, perfNow |-> st.perfNow]
    ELSE st

RECURSIVE CounterForEach(_, _)
\* entries.forEach(...) of the counter observer's callback
CounterForEach(st, entries) ==
    IF entries = <<>> THEN st
    ELSE CounterForEach(CounterEntry(st, Head(entries)), Tail(entries))

\* new IntersectionObserver(...) with the global undefined is a ReferenceError.
NewObserverThrows == ~hasIO

\* constructor: read target and duration, started = false, createObserver().
CounterCtor ==
    /\ cConstructed' = TRUE
    /\ cTarget' = ParseTarget(cTargetAttr)
    /\ cDuration' = DurationOf(cDurationOpt)
    /\ cStarted' = FALSE
    /\ cObserved' = TRUE
    /\ UNCHANGED <<numCounters, cTargetAttr, cDurationOpt, cSuffix, cAnimateCalls,
                   cStartTime, cRafPending, cText, cShown, cShownValid, cLastHits>>

\* The counter's observer delivers a batch of entries for its element;
\* performance.now() is lag after the current frame's timestamp.
CounterIntersection(batch, lag) ==
    /\ cConstructed /\ cObserved
    /\ frameTime <= MaxStartFrame
    /\ LET st == CounterForEach(
                          [started |-> cStarted, calls |-> cAnimateCalls,
                           pending |-> cRafPending, observed |-> cObserved,
                           startTime |-> cStartTime, perfNow |-> frameTime + lag],
                          batch)
       IN  /\ cStarted' = st.started
           /\ cAnimateCalls' = st.calls
           /\ cRafPending' = st.pending
           /\ cObserved' = st.observed
           /\ cStartTime' = st.startTime
    /\ cLastHits' = Cardinality({i \in DOMAIN batch : batch[i].isIntersecting})
    /\ UNCHANGED <<numCounters, cTargetAttr, cDurationOpt, cSuffix, cConstructed,
                   cTarget, cDuration, cText, cShown, cShownValid>>
    /\ UNCHANGED <<envVars, loaderVars, revealVars, textVars, frameVars,
                   parallaxVars, appVars, fxVars, uiVars>>

\* An update() that leaves the suffix out.
CounterUpdate_NoSuffix(ts) ==
    LET elapsed == ts - cStartTime
        current == EasedValue(cTarget, elapsed, cDuration)
    IN  IF elapsed < cDuration
        THEN /\ cText' = ToLocaleString(current)
             /\ cShown' = current
             /\ cShownValid' = TRUE
             /\ UNCHANGED cRafPending
        ELSE /\ cText' = ToLocaleString(cTarget)
             /\ cShown' = cTarget
             /\ cShownValid' = TRUE
             /\ cRafPending' = 0

\* update(currentTime) of animate(), run for the frame with timestamp ts:
\* write the eased value and request the next frame while progress < 1,
\* otherwise write the target and the suffix.
CounterUpdate(ts) ==
    LET elapsed == ts - cStartTime
        current == EasedValue(cTarget, elapsed, cDuration)
    IN  IF elapsed < cDuration
        THEN /\ cText' = ToLocaleString(current)
             /\ cShown' = current
             /\ cShownValid' = TRUE
             /\ UNCHANGED cRafPending
        ELSE /\ cText' = ToLocaleString(cTarget) \o cSuffix
             /\ cShown' = cTarget
             /\ cShownValid' = TRUE
             /\ cRafPending' = 0

\* ------------------------------------------------------------------------
\* ScrollProgress and ParallaxEffect (reveal script 112-180)
\* ------------------------------------------------------------------------
\* Heights of the document and of the window, and scroll positions.
DocHeights == {800, 2000}
ViewHeights == {800, 1000}
ScrollPositions == {0, 100, 300, 600, 1200}
PageScrollPositions == {0, 600}

Max(a, b) == IF a >= b THEN a ELSE b

\* The largest scroll position the browser allows.
MaxScroll(sh, ih) == Max(0, sh - ih)

\* The fraction n / d in lowest terms.
Ratio(n, d) == LET g == GCD(n, d) IN <<n \div g, d \div g>>

\* A progress relative to the whole document height.
Percent_OfScrollHeight(y, sh, ih) == Ratio(y * 100, sh)

\* updateProgress(): docHeight > 0 ? (scrollTop / docHeight) * 100 : 0
Percent(y, sh, ih) ==
    LET docHeight == sh - ih
    IN  IF docHeight > 0 THEN Ratio(y * 100, docHeight) ELSE <<0, 1>>

\* new ScrollProgress(): the bar is created and updateProgress() runs.
ScrollProgressCtor ==
    /\ spCreated' = TRUE
    /\ spWidth' = Percent(scrollY, scrollHeight, innerHeight)

\* new ParallaxEffect(): the scroll listener is registered when there are
\* layers.
ParallaxCtor ==
    /\ pxListening' = (pxLayers > 0)
    /\ pxTicking' = FALSE
    /\ UNCHANGED <<pxLayers, pxPending, pxSpeedAttr, pxOffset, pxUpdated>>

\* new ScrollProgress(); new ParallaxEffect()
ScrollFxCtor ==
    /\ ScrollProgressCtor
    /\ ParallaxCtor
    /\ UNCHANGED <<scrollY, scrollHeight, innerHeight>>

\* An onScroll that requests a frame for every scroll event.
ParallaxOnScroll_NoGuard ==
    IF pxListening
    THEN /\ pxPending' = pxPending + 1
         /\ pxTicking' = TRUE
    ELSE UNCHANGED <<pxPending, pxTicking>>

\* onScroll(): request a frame unless one is pending.
ParallaxOnScroll ==
    IF pxListening /\ ~pxTicking
    THEN /\ pxPending' = pxPending + 1
         /\ pxTicking' = TRUE
    ELSE UNCHANGED <<pxPending, pxTicking>>

\* Speeds a layer may carry, in tenths: none given, 0, 0.3, 1.
SpeedAttrs == {<<>>, <<0>>, <<3>>, <<10>>}

\* layer.dataset.speed || 0.5, in tenths
SpeedTenths(attr) == IF attr = <<>> THEN DefaultSpeedTenths ELSE attr[1]

\* updateLayers(): yPos = -(scrollY * speed) for every layer, in tenths of
\* a pixel.
LayerOffsets(y) == [l \in 1 .. pxLayers |-> -(y * SpeedTenths(pxSpeedAttr[l]))]

\* A frame callback that leaves the guard set.
ParallaxFrame_KeepTicking ==
    /\ pxOffset' = LayerOffsets(scrollY)
    /\ pxUpdated' = TRUE
    /\ pxPending' = 0
    /\ pxTicking' = TRUE

\* The frame callback of onScroll(): updateLayers(), ticking = false.
ParallaxFrame ==
    /\ pxOffset' = LayerOffsets(scrollY)
    /\ pxUpdated' = TRUE
    /\ pxPending' = 0
    /\ pxTicking' = FALSE

\* The frame clock of the model has a frame left.
FramesLeft == \E d \in CoarseFrameDeltas : frameTime + d <= MaxFrameTime

\* The scroll and resize listeners of the bar: updateProgress() with the
\* window's new position and sizes.
UpdateProgress ==
    spWidth' = IF spCreated THEN Percent(scrollY', scrollHeight', innerHeight')
               ELSE spWidth

\* A scroll event: the window is at position y.
Scroll(y) ==
    /\ FramesLeft
    /\ y # scrollY
    /\ y <= MaxScroll(scrollHeight, innerHeight)
    /\ scrollY' = y
    /\ UNCHANGED <<scrollHeight, innerHeight>>
    /\ UpdateProgress
    /\ ParallaxOnScroll
    /\ UNCHANGED <<spCreated, pxLayers, pxListening, pxSpeedAttr, pxOffset,
                   pxUpdated>>
    /\ UNCHANGED <<envVars, loaderVars, revealVars, textVars, counterVars,
                   frameVars, appVars, fxVars, uiVars>>

\* A resize event: the window is ih high and the document, laid out
\* again, sh; the browser keeps the scroll position within the new range,
\* which is a scroll event when the position moves.
Resize(ih, sh) ==
    /\ FramesLeft
    /\ <<ih, sh>> # <<innerHeight, scrollHeight>>
    /\ innerHeight' = ih
    /\ scrollHeight' = sh
    /\ scrollY' = Min(scrollY, MaxScroll(sh, ih))
    /\ UpdateProgress
    /\ IF scrollY' # scrollY
       THEN ParallaxOnScroll
       ELSE UNCHANGED <<pxPending, pxTicking>>
    /\ UNCHANGED <<spCreated, pxLayers, pxListening, pxSpeedAttr, pxOffset,
                   pxUpdated>>
    /\ UNCHANGED <<envVars, loaderVars, revealVars, textVars, counterVars,
                   frameVars, appVars, fxVars, uiVars>>

\* new ScrollProgress(); new ParallaxEffect() by a caller.
NewScrollFx ==
    /\ ~spCreated
    /\ ScrollFxCtor
    /\ UNCHANGED <<envVars, loaderVars, revealVars, textVars, counterVars,
                   frameVars, appVars, fxVars, uiVars>>

\* An animation frame d ms after the last: the requested callbacks run
\* with the frame's timestamp.
Frame(d) ==
    /\ frameTime + d <= MaxFrameTime
    /\ frameTime' = frameTime + d
    /\ IF cRafPending > 0
       THEN /\ CounterUpdate(frameTime + d)
            /\ UNCHANGED <<numCounters, cTargetAttr, cDurationOpt, cSuffix,
                           cConstructed, cTarget, cDuration, cStarted, cObserved,
                           cAnimateCalls, cStartTime, cLastHits>>
       ELSE UNCHANGED counterVars
    /\ IF pxPending > 0
       THEN ParallaxFrame
       ELSE UNCHANGED <<pxPending, pxTicking, pxOffset, pxUpdated>>
    /\ UNCHANGED <<spCreated, pxLayers, pxListening, pxSpeedAttr, scrollY,
                   scrollHeight, innerHeight, spWidth>>
    /\ UNCHANGED <<envVars, loaderVars, revealVars, textVars, appVars, fxVars, uiVars>>

\* new CounterAnimation(el) by a caller of the exported class.
NewCounterAnimation ==
    /\ ~cConstructed
    /\ hasIO
    /\ numCounters > 0
    /\ CounterCtor
    /\ UNCHANGED <<envVars, loaderVars, revealVars, textVars, frameVars,
                   parallaxVars, appVars, fxVars, uiVars>>

\* ------------------------------------------------------------------------
\* Form validation (scripts/app.js 141-177)
\* ------------------------------------------------------------------------
FmFields == 1 .. NumFields
FieldValues == {"", " ", "a", " a"}
DefaultValues == {"", "a"}

RECURSIVE TrimStart(_)
TrimStart(str) ==
    IF str # "" /\ Head(str) = " " THEN TrimStart(Tail(str)) ELSE str

RECURSIVE TrimEnd(_)
TrimEnd(str) ==
    IF str # "" /\ SubSeq(str, Len(str), Len(str)) = " "
    THEN TrimEnd(SubSeq(str, 1, Len(str) - 1))
    ELSE str

\* String.prototype.trim
Trim(str) == TrimEnd(TrimStart(str))

\* The required fields whose trimmed value is empty.
EmptyRequired == {f \in fmRequired : Trim(fmValue[f]) = ""}

\* A submit listener that keeps the error class on every field that has it.
SubmitHandler_KeepErrors ==
    /\ fmNavigated' = FALSE
    /\ fmError' = fmError \cup EmptyRequired
    /\ IF EmptyRequired = {}
       THEN /\ fmSuccessShown' = (fmHasSuccess \/ fmSuccessShown)
            /\ fmValue' = fmDefault
       ELSE UNCHANGED <<fmSuccessShown, fmValue>>

\* The submit listener: preventDefault(); the error class is added to the
\* empty required fields and removed from the others; when all are filled
\* the success message is displayed and the form is reset.
SubmitHandler ==
    /\ fmNavigated' = FALSE
    /\ fmError' = (fmError \ fmRequired) \cup EmptyRequired
    /\ IF EmptyRequired = {}
       THEN /\ fmSuccessShown' = (fmHasSuccess \/ fmSuccessShown)
            /\ fmValue' = fmDefault
       ELSE UNCHANGED <<fmSuccessShown, fmValue>>

\* initForms(): the listener on every form[data-validate].
InitForms ==
    /\ fmListening' = fmValidate
    /\ UNCHANGED <<fmValidate, fmRequired, fmDefault, fmHasSuccess, fmValue,
                   fmError, fmSuccessShown, fmNavigated, fmLastEvent>>

\* initForms() called on a page with a form.
NewForms ==
    /\ ~fmListening
    /\ fmLastEvent = "none"
    /\ InitForms
    /\ UNCHANGED <<envVars, loaderVars, revealVars, textVars, counterVars,
                   frameVars, parallaxVars, appVars, fxVars, faqVars, carouselVars>>

\* The visitor changes the value of field f.
FormEdit(f, v) ==
    /\ ~fmNavigated
    /\ fmValue' = [fmValue EXCEPT ![f] = v]
    /\ fmLastEvent' = "edit"
    /\ UNCHANGED <<fmValidate, fmRequired, fmDefault, fmHasSuccess, fmListening,
                   fmError, fmSuccessShown, fmNavigated>>
    /\ UNCHANGED <<envVars, loaderVars, revealVars, textVars, counterVars,
                   frameVars, parallaxVars, appVars, fxVars, faqVars, carouselVars>>

\* The visitor submits the form: the listener runs when there is one,
\* otherwise the browser submits the form and leaves the page.
FormSubmit ==
    /\ ~fmNavigated
    /\ fmLastEvent' = "submit"
    /\ IF fmListening
       THEN SubmitHandler
       ELSE /\ fmNavigated' = TRUE
            /\ UNCHANGED <<fmError, fmSuccessShown, fmValue>>
    /\ UNCHANGED <<fmValidate, fmRequired, fmDefault, fmHasSuccess, fmListening>>
    /\ UNCHANGED <<envVars, loaderVars, revealVars, textVars, counterVars,
                   frameVars, parallaxVars, appVars, fxVars, faqVars, carouselVars>>

\* ------------------------------------------------------------------------
\* FAQ accordion (scripts/app.js 210-228)
\* ------------------------------------------------------------------------
FaqItems == 1 .. NumFaq

\* A click that leaves the other items as they are.
FaqClickEffect_KeepOthers(x) ==
    faqOpen' = IF x \in faqOpen THEN faqOpen \ {x} ELSE faqOpen \cup {x}

\* A click that opens the item and never closes it.
FaqClickEffect_OpenOnly(x) ==
    faqOpen' = {x}

\* The click listener of item x: "open" is removed from every other item,
\* then toggled on x.
FaqClickEffect(x) ==
    LET others == faqItems \ {x}
        closed == faqOpen \ others
    IN  faqOpen' = IF x \in closed THEN closed \ {x} ELSE closed \cup {x}

\* initFAQ(): a click listener on the question of every item that has one.
InitFAQ ==
    /\ faqListening' = {item \in faqItems : item \in faqQuestions}
    /\ UNCHANGED <<faqItems, faqQuestions, faqOpen, faqLast, faqPrevOpen>>

\* initFAQ() called on a page with the accordion's markup.
NewFAQ ==
    /\ faqListening = {}
    /\ faqLast = 0
    /\ InitFAQ
    /\ UNCHANGED <<envVars, loaderVars, revealVars, textVars, counterVars,
                   frameVars, parallaxVars, appVars, fxVars, carouselVars, formVars>>

\* The visitor clicks the question of item x.
FaqClick(x) ==
    /\ x \in faqListening
    /\ FaqClickEffect(x)
    /\ faqLast' = x
    /\ faqPrevOpen' = faqOpen
    /\ UNCHANGED <<faqItems, faqQuestions, faqListening>>
    /\ UNCHANGED <<envVars, loaderVars, revealVars, textVars, counterVars,
                   frameVars, parallaxVars, appVars, fxVars, carouselVars, formVars>>

\* ------------------------------------------------------------------------
\* Testimonial carousel (scripts/app.js 233-265)
\* The indicator container is empty in the markup: its indicators are the
\* ones created here.  The interval is nominal: it fires CarouselInterval
\* after it was set and every CarouselInterval from then on.
\* ------------------------------------------------------------------------
CarGrain == CarouselInterval \div 2

\* `translateX(-${index * 100}%)`
TranslateX(index) ==
    IF index = NaN THEN "translateX(-NaN%)"
    ELSE "translateX(-" \o NatString(index * 100) \o "%)"

\* An advance that runs off the end of the track.
NextSlide_NoWrap(current, n) == current + 1

\* (currentSlide + 1) % slides.length, which is NaN for a remainder by 0
\* and for NaN
NextSlide(current, n) ==
    IF current = NaN \/ n = 0 THEN NaN ELSE (current + 1) % n

\* A goToSlide that leaves the indicators as they are.
GoToSlide_StaleDots(index) ==
    /\ carCurrent' = index
    /\ carTransform' = TranslateX(index)
    /\ UNCHANGED carDots

\* goToSlide(index)
GoToSlide(index) ==
    /\ carCurrent' = index
    /\ carTransform' = TranslateX(index)
    /\ carDots' = [i \in DOMAIN carDots |-> (i - 1 = index)]

\* A click that sets the interval anew.
CarClickEffect_Restart(j) ==
    /\ GoToSlide(j)
    /\ carDue' = carNow + CarouselInterval

\* The click listener of indicator j: goToSlide(j); the interval stays.
CarClickEffect(j) ==
    /\ GoToSlide(j)
    /\ UNCHANGED carDue

\* initTestimonialCarousel(): nothing without the track or the indicator
\* container; otherwise one indicator per slide, the first one active, and
\* the interval.
InitCarousel ==
    IF ~carTrack \/ ~carDotsBox
    THEN UNCHANGED carouselVars
    ELSE /\ carInited' = TRUE
         /\ carCurrent' = 0
         /\ carDots' = [i \in 1 .. carSlides |-> (i - 1 = 0)]
         /\ carDue' = carNow + CarouselInterval
         /\ carInitAt' = carNow
         /\ UNCHANGED <<carTrack, carDotsBox, carSlides, carTransform, carNow,
                        carLastEvent, carFrom, carTicksSince, carLastClickAt>>

\* initTestimonialCarousel() called on a page.
NewCarousel ==
    /\ ~carInited
    /\ InitCarousel
    /\ UNCHANGED <<envVars, loaderVars, revealVars, textVars, counterVars,
                   frameVars, parallaxVars, appVars, fxVars, faqVars, formVars>>

\* The visitor clicks indicator j.
CarDotClick(j) ==
    /\ carInited
    /\ j \in 0 .. Len(carDots) - 1
    /\ CarClickEffect(j)
    /\ carLastEvent' = "click"
    /\ carFrom' = j
    /\ carTicksSince' = 0
    /\ carLastClickAt' = carNow
    /\ UNCHANGED <<carTrack, carDotsBox, carSlides, carInited, carNow, carInitAt>>
    /\ UNCHANGED <<envVars, loaderVars, revealVars, textVars, counterVars,
                   frameVars, parallaxVars, appVars, fxVars, faqVars, formVars>>

\* The interval fires.
CarTick ==
    /\ carDue # None
    /\ carNow = carDue
    /\ GoToSlide(NextSlide(carCurrent, carSlides))
    /\ carDue' = carDue + CarouselInterval
    /\ carLastEvent' = "tick"
    /\ carTicksSince' = carTicksSince + 1
    /\ UNCHANGED <<carTrack, carDotsBox, carSlides, carInited, carNow, carInitAt,
                   carFrom, carLastClickAt>>
    /\ UNCHANGED <<envVars, loaderVars, revealVars, textVars, counterVars,
                   frameVars, parallaxVars, appVars, fxVars, faqVars, formVars>>

\* Time passes on the carousel's clock, up to the next tick of the
\* interval; before initialisation, for less than one interval.
CarAdvance ==
    /\ carNow < MaxCarTime
    /\ IF carDue = None THEN carNow < CarouselInterval ELSE carNow < carDue
    /\ carNow' = LET t == Min(carNow + CarGrain, MaxCarTime)
                 IN  IF carDue = None THEN t ELSE Min(t, carDue)
    /\ UNCHANGED <<carTrack, carDotsBox, carSlides, carInited, carCurrent,
                   carTransform, carDots, carDue, carInitAt, carLastEvent,
                   carFrom, carTicksSince, carLastClickAt>>
    /\ UNCHANGED <<envVars, loaderVars, revealVars, textVars, counterVars,
                   frameVars, parallaxVars, appVars, fxVars, faqVars, formVars>>

\* ------------------------------------------------------------------------
\* Page initialisation (scripts/app.js 7-13, 182-205, 341-352;
\* reveal script 183-208)
\* ------------------------------------------------------------------------
AfterCounters == {"SmoothScroll", "Forms", "FAQ", "Carousel"}

\* The ready callback of app.js: the loader, one CounterAnimation per
\* [data-counter] element, then smooth scroll, forms, FAQ and carousel.
\* A throwing constructor ends the callback.
ReadyCallback ==
    /\ PageLoaderCtor
    /\ IF numCounters > 0 /\ NewObserverThrows
       THEN /\ appThrew' = TRUE
            /\ appInited' = {"PageLoader"}
            /\ UNCHANGED counterVars
            /\ UNCHANGED uiVars
       ELSE /\ appThrew' = FALSE
            /\ appInited' = {"PageLoader", "Counters"} \cup AfterCounters
            /\ IF numCounters > 0 THEN CounterCtor ELSE UNCHANGED counterVars
            /\ InitForms
            /\ InitFAQ
            /\ InitCarousel

\* The DOMContentLoaded handler of the reveal script: the components when
\* motion is allowed, otherwise everything revealed at once.
FxHandler ==
    /\ fxScript' = "ran"
    /\ IF ~reducedMotion
       THEN /\ ScrollRevealsCtor
            /\ TextRevealCtor
            /\ ScrollFxCtor
            /\ fxInited' = {"ScrollReveals", "TextReveal", "ScrollProgress", "Parallax"}
       ELSE /\ revealed' = revealed \cup domEls
            /\ textRevealed' = textRevealed \cup textEls
            /\ fxInited' = {}
            /\ UNCHANGED <<domEls, srConstructed, srThrew, srObserver, srElements,
                           observed, passed, srEvent>>
            /\ UNCHANGED <<textEls, textWrapped>>
            /\ UNCHANGED parallaxVars

\* The footer's ready callback: the placeholder, while it is in the
\* document, is replaced by the footer; without one the footer goes to the
\* end of the main content; without either nothing is inserted.
InsertFooter ==
    /\ IF ftPlaceholder /\ ftAt # "placeholder"
       THEN /\ ftFooters' = ftFooters + 1
            /\ ftAt' = "placeholder"
       ELSE IF ftMain
       THEN /\ ftFooters' = ftFooters + 1
            /\ ftAt' = "main"
       ELSE UNCHANGED <<ftFooters, ftAt>>
    /\ UNCHANGED <<ftPlaceholder, ftMain>>

\* app.js is evaluated: ready(fn) for the page and ready(fn) for the
\* footer.  With the document past "loading" both callbacks run at once,
\* and an exception of the first ends the script before the second.
EvalAppScript ==
    /\ appScript = "pending"
    /\ IF readyState # "loading"
       THEN /\ ReadyCallback
            /\ appScript' = IF appThrew' THEN "threw" ELSE "ran"
            /\ footerRan' = ~appThrew'
            /\ IF appThrew' THEN UNCHANGED footerVars ELSE InsertFooter
       ELSE /\ appScript' = "listening"
            /\ UNCHANGED <<appInited, appThrew, footerRan, footerVars>>
            /\ UNCHANGED <<loaderVars, counterVars, uiVars>>
    /\ UNCHANGED <<envVars, revealVars, textVars, frameVars, parallaxVars, fxVars>>

\* The reveal script is evaluated:
\* document.addEventListener('DOMContentLoaded', handler).
EvalFxScript ==
    /\ fxScript = "pending"
    /\ fxScript' = IF dclFired THEN "missed" ELSE "listening"
    /\ UNCHANGED fxInited
    /\ UNCHANGED <<envVars, loaderVars, revealVars, textVars, counterVars,
                   frameVars, parallaxVars, appVars, uiVars>>

\* ------------------------------------------------------------------------
\* Document lifecycle
\* ------------------------------------------------------------------------
\* The parser finishes: readyState becomes "interactive".
DocInteractive ==
    /\ readyState = "loading"
    /\ readyState' = "interactive"
    /\ UNCHANGED <<dclFired, hasIO, reducedMotion>>
    /\ UNCHANGED <<loaderVars, revealVars, textVars, counterVars, frameVars,
                   parallaxVars, appVars, fxVars, uiVars>>

\* DOMContentLoaded is dispatched: the registered listeners run.
DOMContentLoaded ==
    /\ readyState = "interactive"
    /\ ~dclFired
    /\ dclFired' = TRUE
    /\ IF appScript = "listening"
       THEN /\ ReadyCallback
            /\ appScript' = "ran"
            /\ footerRan' = TRUE
            /\ InsertFooter
       ELSE UNCHANGED <<appVars, loaderVars, counterVars, uiVars>>
    /\ IF fxScript = "listening"
       THEN FxHandler
       ELSE UNCHANGED <<fxVars, revealVars, textVars, parallaxVars>>
    /\ UNCHANGED <<readyState, hasIO, reducedMotion>>
    /\ UNCHANGED frameVars

\* All resources are in: readyState becomes "complete" and the window
\* 'load' event is dispatched.
DocComplete ==
    /\ readyState = "interactive"
    /\ dclFired
    /\ readyState' = "complete"
    /\ LoadListener
    /\ UNCHANGED <<dclFired, hasIO, reducedMotion>>
    /\ UNCHANGED <<revealVars, textVars, counterVars, frameVars, parallaxVars,
                   appVars, fxVars, uiVars>>

\* ------------------------------------------------------------------------
\* Initial states
\* ------------------------------------------------------------------------
LoaderIdle ==
    /\ now = 0
    /\ ldConstructed = FALSE
    /\ ldLoadListener = FALSE
    /\ timers = {}
    /\ nextTimerId = 1
    /\ ldHidden = FALSE
    /\ ldAttached = loaderPresent
    /\ ldHideCalls = 0
    /\ ldCompleteAtCtor = FALSE
    /\ ldCtorAt = None
    /\ ldLoadAt = None
    /\ ldHideAt = None
    /\ ldRemoveAt = None

RevealIdle ==
    /\ srConstructed = FALSE
    /\ srThrew = FALSE
    /\ srObserver = FALSE
    /\ srElements = {}
    /\ revealed = {}
    /\ observed = {}
    /\ passed = {}
    /\ srEvent = SrEvent("none", 0, {})
    /\ textRevealed = {}
    /\ textWrapped = {}

CounterIdle ==
    /\ cConstructed = FALSE
    /\ cTarget = 0
    /\ cDuration = 0
    /\ cStarted = FALSE
    /\ cObserved = FALSE
    /\ cAnimateCalls = 0
    /\ cStartTime = 0
    /\ cRafPending = 0
    /\ cText = "0"
    /\ cShown = 0
    /\ cShownValid = FALSE
    /\ cLastHits = 0
    /\ frameTime = 0

ScrollFxIdle ==
    /\ spCreated = FALSE
    /\ scrollY = 0
    /\ spWidth = <<0, 1>>
    /\ pxListening = FALSE
    /\ pxTicking = FALSE
    /\ pxPending = 0
    /\ pxOffset = [l \in 1 .. pxLayers |-> 0]
    /\ pxUpdated = FALSE

ScriptsIdle(app, fx) ==
    /\ appScript = app
    /\ appInited = {}
    /\ appThrew = FALSE
    /\ footerRan = FALSE
    /\ ftFooters = 0
    /\ ftAt = "none"
    /\ fxScript = fx
    /\ fxInited = {}

FaqIdle ==
    /\ faqListening = {}
    /\ faqLast = 0
    /\ faqPrevOpen = {}

CarouselIdle ==
    /\ carInited = FALSE
    /\ carCurrent = 0
    /\ carTransform = ""
    /\ carDots = <<>>
    /\ carNow = 0
    /\ carDue = None
    /\ carInitAt = None
    /\ carLastEvent = "none"
    /\ carFrom = 0
    /\ carTicksSince = 0
    /\ carLastClickAt = None

FormIdle ==
    /\ fmListening = FALSE
    /\ fmValue = fmDefault
    /\ fmError = {}
    /\ fmSuccessShown = FALSE
    /\ fmNavigated = FALSE
    /\ fmLastEvent = "none"

\* A page without markup for the components
NoLoader == loaderPresent = FALSE
NoReveals == domEls = {} /\ textEls = {}
NoCounters ==
    /\ numCounters = 0
    /\ cTargetAttr = <<>>
    /\ cDurationOpt = 0
    /\ cSuffix = ""
NoLayers == pxLayers = 0 /\ pxSpeedAttr = <<>>
NoFooterTargets == ftPlaceholder = FALSE /\ ftMain = FALSE
\* A document as high as the window, and one that scrolls
ShortPage == scrollHeight = 800 /\ innerHeight = 800
TallPage == scrollHeight = 2000 /\ innerHeight = 800
NoFaq == faqItems = {} /\ faqQuestions = {} /\ faqOpen = {}
NoCarousel == carTrack = FALSE /\ carDotsBox = FALSE /\ carSlides = 0
NoForm ==
    /\ fmValidate = FALSE
    /\ fmRequired = {}
    /\ fmDefault = <<>>
    /\ fmHasSuccess = FALSE
NoUi == NoFaq /\ FaqIdle /\ NoCarousel /\ CarouselIdle /\ NoForm /\ FormIdle

\* The page loader alone, constructed by a caller at any stage of the document.
InitLoader ==
    /\ readyState \in {"loading", "interactive", "complete"}
    /\ dclFired = (readyState # "loading")
    /\ hasIO = TRUE
    /\ reducedMotion = FALSE
    /\ loaderPresent \in BOOLEAN
    /\ LoaderIdle
    /\ NoReveals /\ RevealIdle
    /\ NoCounters /\ CounterIdle
    /\ NoLayers /\ ShortPage /\ ScrollFxIdle
    /\ ScriptsIdle("absent", "absent") /\ NoFooterTargets
    /\ NoUi

NextLoader ==
    \/ DocInteractive
    \/ DOMContentLoaded
    \/ DocComplete
    \/ NewPageLoader
    \/ FireAfterLoad
    \/ FireCeiling
    \/ FireRemove
    \/ Advance

SpecLoader == InitLoader /\ [][NextLoader]_vars

\* ScrollReveals alone, constructed by a caller on a loaded page.
InitReveal ==
    /\ readyState = "complete"
    /\ dclFired = TRUE
    /\ hasIO \in BOOLEAN
    /\ reducedMotion = FALSE
    /\ NoLoader /\ LoaderIdle
    /\ domEls \in SUBSET RevealEls
    /\ textEls = {}
    /\ RevealIdle
    /\ NoCounters /\ CounterIdle
    /\ NoLayers /\ ShortPage /\ ScrollFxIdle
    /\ ScriptsIdle("absent", "absent") /\ NoFooterTargets
    /\ NoUi

NextReveal ==
    \/ NewScrollReveals
    \/ \E el \in RevealEls : SrObserve(el)
    \/ \E batch \in Batches(observed) : SrIntersection(batch)

SpecReveal == InitReveal /\ [][NextReveal]_vars

\* One CounterAnimation, constructed by a caller on a loaded page.
InitCounter ==
    /\ readyState = "complete"
    /\ dclFired = TRUE
    /\ hasIO = TRUE
    /\ reducedMotion = FALSE
    /\ NoLoader /\ LoaderIdle
    /\ NoReveals /\ RevealIdle
    /\ numCounters = 1
    /\ cTargetAttr \in TargetAttrs
    /\ cDurationOpt \in DurationOpts
    /\ cSuffix \in Suffixes
    /\ CounterIdle
    /\ NoLayers /\ ShortPage /\ ScrollFxIdle
    /\ ScriptsIdle("absent", "absent") /\ NoFooterTargets
    /\ NoUi

CounterBatches == UNION {[1 .. n -> {Entry(1, b) : b \in BOOLEAN}] : n \in 1 .. MaxBatch}

NextCounter ==
    \/ NewCounterAnimation
    \/ \E batch \in CounterBatches, lag \in PerfLags : CounterIntersection(batch, lag)
    \/ \E d \in FrameDeltas : Frame(d)

SpecCounter == InitCounter /\ [][NextCounter]_vars

\* Frames keep being delivered.
SpecCounterFair == SpecCounter /\ WF_vars(\E d \in FrameDeltas : Frame(d))

\* The page: both scripts, evaluated at any stage of the document.
InitPage ==
    /\ readyState = "loading"
    /\ dclFired = FALSE
    /\ hasIO \in BOOLEAN
    /\ reducedMotion \in BOOLEAN
    /\ loaderPresent \in BOOLEAN
    /\ LoaderIdle
    /\ domEls \in {{}, RevealEls}
    /\ textEls \in SUBSET TextEls
    /\ RevealIdle
    /\ numCounters \in 0 .. MaxCounters
    /\ cTargetAttr = <<MaxTarget>>
    /\ cDurationOpt = 0
    /\ cSuffix = "+"
    /\ CounterIdle
    /\ pxLayers \in 0 .. MaxLayers
    /\ pxSpeedAttr = [l \in 1 .. pxLayers |-> <<>>]
    /\ TallPage
    /\ ScrollFxIdle
    /\ ftPlaceholder \in BOOLEAN
    /\ ftMain \in BOOLEAN
    /\ ScriptsIdle("pending", "pending")
    /\ NoFaq /\ FaqIdle
    /\ NoForm /\ FormIdle
    /\ carTrack \in BOOLEAN
    /\ carDotsBox = FALSE
    /\ carSlides = IF carTrack THEN MaxSlides ELSE 0
    /\ CarouselIdle

NextPage ==
    \/ DocInteractive
    \/ DOMContentLoaded
    \/ DocComplete
    \/ EvalAppScript
    \/ EvalFxScript
    \/ \E batch \in CounterBatches : CounterIntersection(batch, 0)
    \/ \E d \in CoarseFrameDeltas : Frame(d)
    \/ \E y \in PageScrollPositions : Scroll(y)

SpecPage == InitPage /\ [][NextPage]_vars

\* The FAQ accordion alone: any items open in the markup, any of them
\* with a question.
InitFAQSpec ==
    /\ readyState = "complete"
    /\ dclFired = TRUE
    /\ hasIO = TRUE
    /\ reducedMotion = FALSE
    /\ NoLoader /\ LoaderIdle
    /\ NoReveals /\ RevealIdle
    /\ NoCounters /\ CounterIdle
    /\ NoLayers /\ ShortPage /\ ScrollFxIdle
    /\ ScriptsIdle("absent", "absent") /\ NoFooterTargets
    /\ faqItems = FaqItems
    /\ faqQuestions \in SUBSET FaqItems
    /\ faqOpen \in SUBSET FaqItems
    /\ FaqIdle
    /\ NoCarousel /\ CarouselIdle
    /\ NoForm /\ FormIdle

NextFAQ ==
    \/ NewFAQ
    \/ \E x \in FaqItems : FaqClick(x)

SpecFAQ == InitFAQSpec /\ [][NextFAQ]_vars

\* The carousel alone, with or without its two containers.
InitCarouselSpec ==
    /\ readyState = "complete"
    /\ dclFired = TRUE
    /\ hasIO = TRUE
    /\ reducedMotion = FALSE
    /\ NoLoader /\ LoaderIdle
    /\ NoReveals /\ RevealIdle
    /\ NoCounters /\ CounterIdle
    /\ NoLayers /\ ShortPage /\ ScrollFxIdle
    /\ ScriptsIdle("absent", "absent") /\ NoFooterTargets
    /\ NoFaq /\ FaqIdle
    /\ carTrack \in BOOLEAN
    /\ carDotsBox \in BOOLEAN
    /\ carSlides \in 0 .. MaxSlides
    /\ CarouselIdle
    /\ NoForm /\ FormIdle

NextCarousel ==
    \/ NewCarousel
    \/ \E j \in 0 .. MaxSlides - 1 : CarDotClick(j)
    \/ CarTick
    \/ CarAdvance

SpecCarousel == InitCarouselSpec /\ [][NextCarousel]_vars

\* One form, with or without data-validate, any fields required, any
\* default values.
InitFormsSpec ==
    /\ readyState = "complete"
    /\ dclFired = TRUE
    /\ hasIO = TRUE
    /\ reducedMotion = FALSE
    /\ NoLoader /\ LoaderIdle
    /\ NoReveals /\ RevealIdle
    /\ NoCounters /\ CounterIdle
    /\ NoLayers /\ ShortPage /\ ScrollFxIdle
    /\ ScriptsIdle("absent", "absent") /\ NoFooterTargets
    /\ NoFaq /\ FaqIdle
    /\ NoCarousel /\ CarouselIdle
    /\ fmValidate \in BOOLEAN
    /\ fmRequired \in SUBSET FmFields
    /\ fmDefault \in [FmFields -> DefaultValues]
    /\ fmHasSuccess \in BOOLEAN
    /\ FormIdle

NextForms ==
    \/ NewForms
    \/ \E f \in FmFields, v \in FieldValues : FormEdit(f, v)
    \/ FormSubmit

SpecForms == InitFormsSpec /\ [][NextForms]_vars

\* The scroll progress bar and the parallax effect, constructed by a
\* caller on a page of any height, with or without layers.
InitScroll ==
    /\ readyState = "complete"
    /\ dclFired = TRUE
    /\ hasIO = TRUE
    /\ reducedMotion = FALSE
    /\ NoLoader /\ LoaderIdle
    /\ NoReveals /\ RevealIdle
    /\ NoCounters /\ CounterIdle
    /\ pxLayers \in 0 .. MaxLayers
    /\ pxSpeedAttr \in [1 .. pxLayers -> SpeedAttrs]
    /\ scrollHeight \in DocHeights
    /\ innerHeight \in ViewHeights
    /\ ScrollFxIdle
    /\ ScriptsIdle("absent", "absent") /\ NoFooterTargets
    /\ NoUi

NextScroll ==
    \/ NewScrollFx
    \/ \E y \in ScrollPositions : Scroll(y)
    \/ \E ih \in ViewHeights, sh \in DocHeights : Resize(ih, sh)
    \/ \E d \in CoarseFrameDeltas : Frame(d)

SpecScroll == InitScroll /\ [][NextScroll]_vars

\* Frames keep being delivered.
SpecScrollFair == SpecScroll /\ WF_vars(\E d \in CoarseFrameDeltas : Frame(d))

\* ------------------------------------------------------------------------
\* Properties of the page loader
\* ------------------------------------------------------------------------
\* The instant at which hiding is due for a constructed loader.
HideTrigger ==
    IF ldCompleteAtCtor
    THEN ldCtorAt
    ELSE Min(ldCtorAt + CeilingDelay,
             IF ldLoadAt # None THEN ldLoadAt + LoadHideDelay
                                ELSE ldCtorAt + CeilingDelay)

\* C1: for a loader whose element exists, hiding begins at the earliest of
\* construction (document already complete), load + 500 ms and
\* construction + 3000 ms: it never begins at another time, and it has
\* begun once that instant has passed, also when the load event never fires.
C1_HideAtEarliestTrigger ==
    (ldConstructed /\ loaderPresent) =>
        /\ ldHideAt # None => ldHideAt = HideTrigger
        /\ ldHidden <=> ldHideAt # None
        /\ now > HideTrigger => ldHidden
        /\ now > ldCtorAt + CeilingDelay => ldHidden
        /\ ldCompleteAtCtor => ldHideAt = ldCtorAt

\* The ceiling case: the load event never fired and hiding began at
\* construction + 3000 ms.
C1_Witness ==
    /\ ldConstructed /\ loaderPresent /\ ~ldCompleteAtCtor
    /\ ldLoadAt = None
    /\ ldHideAt = ldCtorAt + CeilingDelay
    /\ now > ldHideAt

\* C2: the loader element is detached exactly 500 ms after hiding first
\* begins, never earlier, and so no later than 3500 ms after construction.
C2_RemovedAfterHide ==
    (ldConstructed /\ loaderPresent) =>
        /\ ~ldAttached <=> ldRemoveAt # None
        /\ ldRemoveAt # None => (ldHideAt # None /\ ldRemoveAt = ldHideAt + RemoveDelay)
        /\ (ldHideAt # None /\ now > ldHideAt + RemoveDelay) => ~ldAttached
        /\ now > ldCtorAt + CeilingDelay + RemoveDelay => ~ldAttached

\* The latest removal: no load event, detached 3500 ms after construction.
C2_Witness ==
    /\ ldConstructed /\ loaderPresent
    /\ ldLoadAt = None
    /\ ~ldAttached
    /\ ldRemoveAt = ldCtorAt + CeilingDelay + RemoveDelay

\* ------------------------------------------------------------------------
\* Properties of ScrollReveals
\* ------------------------------------------------------------------------
\* C3 (as stated): in every reachable state a revealed element is not
\* tracked by the observer.
C3_RevealedNeverTracked == revealed \cap observed = {}

\* C3 (amended): after an intersection callback every target that was
\* intersecting is revealed and no longer tracked; no element ever loses
\* the revealed state; a callback whose intersecting targets are all
\* revealed already leaves the revealed set as it is; and a revealed element
\* becomes tracked only by a call of observe() on that element.
C3_RevealOnce ==
    [][ /\ revealed \subseteq revealed'
        /\ srEvent'.op = "intersect" =>
               /\ srEvent'.hits \subseteq revealed'
               /\ srEvent'.hits \cap observed' = {}
               /\ srEvent'.hits \subseteq revealed
                      => revealed' = revealed
        /\ \A el \in RevealEls :
               (el \in revealed' \cap observed' /\ el \notin revealed \cap observed)
                   => (el \in revealed /\ srEvent'.op = "observe" /\ srEvent'.el = el)
      ]_vars

\* An element found at construction was revealed by an intersection
\* callback and is not tracked.
C3_Witness ==
    /\ srEvent.op = "intersect"
    /\ \E el \in srEvent.hits :
           el \in srElements /\ el \in revealed /\ el \notin observed

\* C4: without intersection observation, constructing ScrollReveals reveals
\* every [data-reveal] element at once and throws nothing.
C4_FallbackRevealsAll ==
    (srConstructed /\ ~hasIO) =>
        /\ ~srThrew
        /\ srElements = domEls
        /\ domEls \subseteq revealed

\* The fallback ran on a page whose elements all carry [data-reveal].
C4_Witness ==
    /\ srConstructed /\ ~hasIO
    /\ domEls = RevealEls
    /\ revealed = RevealEls

\* C5: on every platform, an element passed to observe() is under
\* observation until it has been revealed.
C5_ObservedOnEveryPlatform ==
    \A el \in passed : el \in observed \/ el \in revealed

\* ------------------------------------------------------------------------
\* Properties of the page initialisation
\* ------------------------------------------------------------------------
\* C6: with the reduced-motion preference set, once the reveal script's
\* handler has run every [data-reveal] and .text-reveal element is revealed
\* and no component has an animation frame requested.
C6_ReducedMotionNoFrames ==
    (reducedMotion /\ fxScript = "ran") =>
        /\ domEls \subseteq revealed
        /\ textEls \subseteq textRevealed
        /\ cRafPending = 0
        /\ pxPending = 0

\* C7: without intersection observation and with a counter on the page, the
\* ready callback does not throw and initialises smooth scroll, forms, FAQ
\* and carousel.
C7_CountersFallBack ==
    (appScript \in {"ran", "threw"} /\ ~hasIO /\ numCounters >= 1) =>
        /\ ~appThrew
        /\ AfterCounters \subseteq appInited

\* ------------------------------------------------------------------------
\* Properties of CounterAnimation
\* ------------------------------------------------------------------------
\* idle (0), animating (1), settled (2)
PhaseRank == IF ~cStarted THEN 0 ELSE IF cRafPending > 0 THEN 1 ELSE 2

Settled == cStarted /\ cRafPending = 0

\* C8: animate() runs at most once, on the first intersecting entry, and
\* the counter only moves forward through idle, animating, settled.
C8_AnimateOnce ==
    [][ /\ PhaseRank' >= PhaseRank
        /\ cAnimateCalls' <= 1
        /\ cStarted' <=> cAnimateCalls' = 1
        /\ cAnimateCalls' # cAnimateCalls =>
               (~cStarted /\ cLastHits' > 0)
        /\ cLastHits' > 0 => (cStarted' /\ ~cObserved')
      ]_vars

\* A batch of two intersecting entries started the animation once, and it
\* has settled.
C8_Witness ==
    /\ cLastHits = 2
    /\ cAnimateCalls = 1
    /\ cShownValid /\ Settled

CharDigit(c) == CHOOSE d \in 0 .. 9 : DigitChars[d + 1] = c

RECURSIVE ReadDigits(_, _)
\* the number written in str, separators skipped, after the digits in acc
ReadDigits(str, acc) ==
    IF str = "" THEN acc
    ELSE IF Head(str) = "," THEN ReadDigits(Tail(str), acc)
    ELSE ReadDigits(Tail(str), 10 * acc + CharDigit(Head(str)))

\* the number a reader takes from a grouped decimal string
ReadNumber(str) ==
    IF str # "" /\ Head(str) = "-" THEN -ReadDigits(Tail(str), 0)
    ELSE ReadDigits(str, 0)

\* the text without the suffix it ends with
StripSuffix(str, suffix) == SubSeq(str, 1, Len(str) - Len(suffix))

\* C9: with frames being delivered, a started counter settles: the first
\* frame whose elapsed time reaches the duration writes the target, grouped,
\* followed by the suffix, and requests no frame; earlier frames request
\* another; after settling the text never changes.
C9_SettlesOnTarget ==
    /\ [][ /\ (cRafPending > 0 /\ frameTime' # frameTime
                  /\ frameTime' - cStartTime >= cDuration) =>
                  /\ cRafPending' = 0
                  /\ cText' = ToLocaleString(cTarget) \o cSuffix
                  /\ ReadNumber(StripSuffix(cText', cSuffix)) = ParseTarget(cTargetAttr)
           /\ (cRafPending > 0 /\ frameTime' # frameTime
                  /\ frameTime' - cStartTime < cDuration) => cRafPending' > 0
           /\ Settled => (Settled' /\ cText' = cText)
         ]_vars
    /\ (cStarted ~> Settled)

\* The counter with target 1000 and suffix "+" has settled on "1,000+".
C9_Witness ==
    /\ Settled /\ cShownValid
    /\ cTarget = MaxTarget /\ cSuffix = "+"
    /\ Len(cText) = Len(ToLocaleString(MaxTarget)) + 1

\* C10: for a non-negative target the number displayed never decreases
\* from one frame to the next, is 0 at elapsed time 0 and is the target at
\* the last frame.
C10_Monotone ==
    [][ (cTarget >= 0 /\ cRafPending > 0 /\ frameTime' # frameTime) =>
            /\ cShownValid => cShown' >= cShown
            /\ frameTime' = cStartTime => cShown' = 0
            /\ cRafPending' = 0 => cShown' = cTarget
      ]_vars

\* In the middle of the animation towards the largest target.
C10_Witness ==
    /\ cTarget = MaxTarget
    /\ cShownValid /\ cRafPending > 0
    /\ cShown > 0 /\ cShown < cTarget

\* C11: for a non-negative target every number written by update() lies
\* between 0 and the target, whatever timestamp the frame carries.
C11_ValueWithinRange ==
    (cShownValid /\ cTarget >= 0) => (cShown >= 0 /\ cShown <= cTarget)

\* ------------------------------------------------------------------------
\* Properties of the FAQ accordion
\* ------------------------------------------------------------------------
\* C12 as stated: after any click on a question exactly one item is open.
C12_ExactlyOneOpen ==
    faqLast # 0 => Cardinality(faqOpen) = 1

\* C12: after any click on a question at most one item is open, and an
\* open item is the one clicked last.
C12_AtMostOneOpen ==
    faqLast # 0 => (Cardinality(faqOpen) <= 1 /\ faqOpen \subseteq {faqLast})

\* A click has closed the only open item: none is open.
C12_Witness ==
    /\ faqLast # 0
    /\ faqPrevOpen = {faqLast}
    /\ faqOpen = {}

\* C13: a click on the question of X leaves every other item closed and
\* flips X: X alone is open when it was closed before the click, and no
\* item is open when it was open.
C13_ClickToggles ==
    faqLast # 0 =>
        /\ faqLast \in faqListening
        /\ faqOpen \ {faqLast} = {}
        /\ (faqLast \in faqOpen) <=> (faqLast \notin faqPrevOpen)

\* B was clicked while A alone was open: exactly B is open.
C13_Witness ==
    /\ faqLast = 2
    /\ faqPrevOpen = {1}
    /\ faqOpen = {2}

\* ------------------------------------------------------------------------
\* Properties of the testimonial carousel
\* ------------------------------------------------------------------------
\* C14: with N >= 1 slides, k ticks of the interval after the index was i
\* (set by a click, or 0 at initialisation) and no click since, the index
\* is (i + k) mod N and the track is translated by that many widths.
C14_AdvanceWraps ==
    (carInited /\ carSlides >= 1) =>
        /\ carCurrent = (carFrom + carTicksSince) % carSlides
        /\ carTicksSince > 0 =>
               carTransform = TranslateX((carFrom + carTicksSince) % carSlides)

\* Four slides, five advances from index 0: index 1, translateX(-100%).
C14_Witness ==
    /\ carSlides = 4
    /\ carFrom = 0 /\ carLastClickAt = None
    /\ carTicksSince = 5
    /\ carCurrent = 1
    /\ carTransform = "translateX(-100%)"

\* The indicators that carry the class "active".
ActiveDots == {i \in DOMAIN carDots : carDots[i]}

\* C15: with N >= 1 slides, after any interleaving of indicator clicks and
\* interval ticks there is one indicator per slide, exactly one is active,
\* it is the one at the current index, and the track's transform is
\* translateX(-currentIndex * 100%); right after a click on indicator j the
\* current index is j.  Before the first click or tick the index is 0, the
\* first indicator is active and the transform has not been written.
C15_IndicatorFollowsIndex ==
    (carInited /\ carSlides >= 1) =>
        /\ Len(carDots) = carSlides
        /\ carCurrent \in 0 .. carSlides - 1
        /\ ActiveDots = {carCurrent + 1}
        /\ carLastEvent # "none" => carTransform = TranslateX(carCurrent)
        /\ carLastEvent = "none" => (carCurrent = 0 /\ carTransform = "")
        /\ carLastEvent = "click" => carCurrent = carFrom

\* The third indicator was clicked after the interval had already ticked.
C15_Witness ==
    /\ carSlides = 3
    /\ carLastEvent = "click" /\ carFrom = 2
    /\ carLastClickAt > carInitAt + CarouselInterval
    /\ carCurrent = 2
    /\ carDots = <<FALSE, FALSE, TRUE>>
    /\ carTransform = "translateX(-200%)"

\* The number of ticks of the interval so far.
CarTicks == (carDue - carInitAt) \div CarouselInterval - 1

\* C16: a click on an indicator leaves the interval as it is: the next
\* tick stays due at a whole number of intervals after initialisation and
\* the clock never passes it; every tick happens at such an instant; the
\* tick that follows a click on indicator j moves to (j + 1) mod N, however
\* late before the tick the click came.
C16_IntervalIndependent ==
    [][ carInited =>
          /\ ( /\ carLastEvent' = "click"
               /\ <<carLastEvent, carFrom, carTicksSince, carLastClickAt>>' #
                      <<carLastEvent, carFrom, carTicksSince, carLastClickAt>> ) =>
                 (carDue' = carDue /\ carNow' = carNow /\ carInitAt' = carInitAt)
          /\ carDue' # carDue =>
                 /\ carNow = carInitAt + (CarTicks + 1) * CarouselInterval
                 /\ carDue' = carDue + CarouselInterval
                 /\ carLastEvent = "click" =>
                        carCurrent' = (carFrom + 1) % carSlides
          /\ carNow' <= carDue'
      ]_vars

\* A click on the last indicator at the very instant the second tick was
\* due, then the tick: the carousel is on the first slide.
C16_Witness ==
    /\ carSlides = 3
    /\ carLastEvent = "tick"
    /\ carLastClickAt = carNow
    /\ carNow = carInitAt + 2 * CarouselInterval
    /\ carFrom = 2
    /\ carCurrent = 0

\* ------------------------------------------------------------------------
\* Properties of form validation
\* ------------------------------------------------------------------------
\* What every submit of a validated form does to the error flags and, when
\* a required field is empty, to the rest of the form.
SubmitFlags ==
    /\ ~fmNavigated'
    /\ fmError' = EmptyRequired
    /\ EmptyRequired # {} =>
           (fmValue' = fmValue /\ fmSuccessShown' = fmSuccessShown)
    /\ EmptyRequired = {} =>
           (fmHasSuccess => fmSuccessShown')

\* C17 as stated: a submit with every required field filled leaves every
\* field empty.
C17_ResetToEmpty ==
    [][ (fmListening /\ fmLastEvent' = "submit") =>
            /\ SubmitFlags
            /\ EmptyRequired = {} => fmValue' = [f \in FmFields |-> ""]
      ]_vars

\* C17: every submit of a validated form is kept from the browser's
\* default action; with an empty (or blank) required field exactly the empty
\* required fields carry the error flag afterwards, no value changes and
\* the success message stays as it was; otherwise no field carries the
\* flag, the success message (if present) is shown and every field is back
\* at its default value, which is empty for a field without one.
C17_SubmitValidates ==
    [][ (fmListening /\ fmLastEvent' = "submit") =>
            /\ SubmitFlags
            /\ EmptyRequired = {} =>
                   /\ fmValue' = fmDefault
                   /\ \A f \in FmFields : fmDefault[f] = "" => fmValue'[f] = ""
      ]_vars

\* After a successful submit, a submit with the first field blank: that
\* field alone is flagged, the values are kept and the success message of
\* the earlier submit is still shown.
C17_Witness ==
    /\ fmListening /\ fmLastEvent = "submit"
    /\ fmRequired = FmFields
    /\ fmValue[1] = " " /\ fmValue[2] = " a"
    /\ fmError = {1}
    /\ fmSuccessShown

\* ------------------------------------------------------------------------
\* Properties of the scroll progress bar and the parallax effect
\* ------------------------------------------------------------------------
\* C18: from its construction on, and after every scroll and resize, the
\* bar's width in percent is scrollY / (scrollHeight - innerHeight) * 100
\* when the document is higher than the window and 0 when it is not; with
\* scrollY between 0 and scrollHeight - innerHeight it lies within [0, 100].
C18_ProgressIsScrollShare ==
    spCreated =>
        LET docHeight == scrollHeight - innerHeight
            num == spWidth[1]
            den == spWidth[2]
        IN  /\ den > 0
            /\ docHeight > 0 => num * docHeight = scrollY * 100 * den
            /\ docHeight <= 0 => num = 0
            /\ (scrollY >= 0 /\ scrollY <= MaxScroll(scrollHeight, innerHeight)) =>
                   (num >= 0 /\ num <= 100 * den)

\* scrollHeight 2000, innerHeight 800, scrollY 600: 50 percent.
C18_Witness ==
    /\ spCreated
    /\ scrollHeight = 2000 /\ innerHeight = 800 /\ scrollY = 600
    /\ spWidth = <<50, 1>>

\* C19: at most one parallax frame request is pending at any time, and
\* the ticking flag is true exactly when one is pending.
C19_OneFramePending ==
    /\ pxPending <= 1
    /\ pxTicking <=> (pxPending > 0)

\* Scroll events arrived while a frame was pending: one request.
C19_Witness ==
    /\ pxListening
    /\ pxTicking /\ pxPending = 1
    /\ scrollY = 1200 /\ frameTime > 0

\* ------------------------------------------------------------------------
\* Properties of the page initialisation
\* ------------------------------------------------------------------------
\* C20: once the document is ready and a script has been evaluated, its
\* initialisation has run, whether the script was evaluated while the
\* document was loading or after it had become interactive: the ready
\* callback of app.js, and the handler of the reveal script with the
\* reveal, scroll progress and parallax components it constructs.
C20_InitialisedOnReady ==
    /\ (dclFired /\ appScript \notin {"absent", "pending"}) =>
           appScript \in {"ran", "threw"}
    /\ (dclFired /\ fxScript \notin {"absent", "pending"}) =>
           /\ fxScript = "ran"
           /\ ~reducedMotion =>
                  fxInited = {"ScrollReveals", "TextReveal", "ScrollProgress", "Parallax"}

\* The ready callbacks of app.js have had their turn: the script was
\* evaluated and the document is ready.
AppReady == dclFired /\ appScript \notin {"absent", "pending", "listening"}

\* C21: missing targets are skipped silently: without a loader element
\* PageLoader registers no listener and no timer; without the track or the
\* indicator container the carousel creates no indicator and sets no
\* interval; the footer replaces the placeholder when there is one, else
\* goes once to the main content, else nowhere.
C21_MissingTargetsSkipped ==
    /\ (ldConstructed /\ ~loaderPresent) =>
           (timers = {} /\ ~ldLoadListener /\ ldHideCalls = 0)
    /\ ("Carousel" \in appInited /\ (~carTrack \/ ~carDotsBox)) =>
           (~carInited /\ carDots = <<>> /\ carDue = None)
    /\ AppReady =>
           /\ ftPlaceholder => (ftAt = "placeholder" /\ ftFooters = 1)
           /\ (~ftPlaceholder /\ ftMain) => (ftAt = "main" /\ ftFooters = 1)
           /\ (~ftPlaceholder /\ ~ftMain) => (ftAt = "none" /\ ftFooters = 0)

\* C22: hide() runs at most once per loader, so at most one removal timer
\* is ever set, whenever the load event comes.
C22_HideAtMostOnce ==
    /\ ldHideCalls <= 1
    /\ Cardinality({t \in timers : t.kind = "remove"}) <= 1

\* C23: the frame callback writes to every layer the offset
\* -(scrollY * speed) for the position at that frame, with speed 0.5 for a
\* layer without one, and releases the guard; a scroll event that finds the
\* guard released requests a frame; so whenever no frame is pending the
\* layers reflect the current position, and with frames being delivered
\* every scroll event is followed by such an update.
C23_NoScrollLost ==
    /\ [][ /\ (pxPending > 0 /\ frameTime' # frameTime) =>
                  /\ pxOffset' = LayerOffsets(scrollY)
                  /\ \A l \in 1 .. pxLayers :
                         pxSpeedAttr[l] = <<>> => 2 * pxOffset'[l] = -(scrollY * 10)
                  /\ ~pxTicking' /\ pxPending' = 0
           /\ (pxListening /\ ~pxTicking /\ scrollY' # scrollY) =>
                  (pxTicking' /\ pxPending' = 1)
         ]_vars
    /\ []((pxListening /\ pxUpdated /\ ~pxTicking) => pxOffset = LayerOffsets(scrollY))
    /\ (pxTicking ~> (~pxTicking /\ pxUpdated /\ pxOffset = LayerOffsets(scrollY)))

\* Two updates with scroll events in between: the layer without a speed
\* attribute sits at -600 px for scrollY 1200.
C23_Witness ==
    /\ pxListening /\ pxUpdated /\ ~pxTicking
    /\ pxSpeedAttr = <<<<>>>>
    /\ scrollY = 1200
    /\ pxOffset = <<0 - 6000>>
    /\ frameTime >= 2 * (25 * FrameGrain)

\* C24: whatever the number of slides of an initialised carousel, zero
\* and one included, the current index is a number and a valid slide
\* position: 0 <= index < max(N, 1).
C24_IndexInRange ==
    carInited =>
        /\ carCurrent # NaN
        /\ carCurrent >= 0
        /\ carCurrent < Max(carSlides, 1)

====
